---- MODULE Spec2Model ----
(***************************************************************************)
(* State-machine model of agents/src/pipeline/agent_output.ts:             *)
(* SynthesisHandle, AgentOutput, stringSynthesisTask, streamSynthesisTask. *)
(*                                                                         *)
(* Every code segment that runs between two awaits is one atomic action    *)
(* (single-threaded cooperative scheduling); the order in which suspended  *)
(* continuations resume is left open.                                      *)
(***************************************************************************)
EXTENDS Integers, Sequences, FiniteSets, TLC

\* ---------------------------------------------------------------- bounds
MaxTasks  == 2   \* synthesize() calls explored by the orchestrator specification
MaxFrames == 2   \* audio frames the engine produces for one utterance
MaxChunks == 2   \* text chunks an incremental source yields
MaxPlays  == 2   \* play() calls on one handle
MaxCloses == 1   \* close() calls on the orchestrator

HandleIds == 1..MaxTasks

\* SynthesisHandle.FLUSH_SENTINEL as a queue entry; audio frames are 1, 2, ...
FLUSH_SENTINEL == 0

\* what the engine's stream received, in order
PushText(c) == [op |-> "pushText", text |-> c]
Flush       == [op |-> "flush", text |-> 0]
EndInput    == [op |-> "endInput", text |-> 0]

VARIABLES
  scope,        \* the input sizes this run explores (fixed by Init)
  nHandles,     \* handles created so far; handle ids are 1..nHandles in creation order
  tasks,        \* AgentOutput.#tasks: array of supervising tasks (by handle id)
  kind,         \* handle.ttsSource shape: "string" | "promise" | "stream"
  intFut,       \* handle.intFut.done
  playHandle,   \* handle.#playHandle: 0 = undefined, n = the n-th playout registration
  playCalls,    \* number of AgentPlayout.play() invocations for the handle's queue
  playAttempts, \* number of SynthesisHandle.play() calls made
  playThrew,    \* some play() call on the handle threw
  poInterrupted,\* playout handles of this handle that received interrupt(), in call order
  sup,          \* supervising task (#synthesize): "absent" | "awaitSource" | "racing" | "done"
  supCancelReq, \* cancel() was called on the supervising task (by close())
  variant,      \* variant started by the supervisor: "none" | "string" | "stream"
  cancelled,    \* the variant's `cancelled` flag
  audioPc,      \* position of the audio loop (string task body / readGeneratedAudio)
  feedPc,       \* position of the text feed loop of the stream variant
  ttsIn,        \* calls the engine's stream received
  produced,     \* audio frames the engine has emitted
  eos,          \* the engine has emitted END_OF_STREAM
  consumed,     \* events the task has taken from the engine's stream
  ttsFailed,    \* the engine's stream has failed: its next use throws
  srcPos,       \* chunks the incremental source has yielded
  qWritten,     \* entries passed to writer.write(), in order
  reads,        \* entries the playout's reader has pulled from queue.readable
  closePc,      \* close(): "idle" | "waiting" | "returned"
  closeCalls,   \* close() calls made
  closeWait,    \* the tasks Promise.all(this.#tasks) waits for
  \* ---- history variables (observations the claims speak about)
  closeLive,    \* supervising tasks live when close() was called
  intAtPush,    \* chunks pushed to the engine when interrupt() took effect (-1: none)
  supIntCancel, \* the supervisor found the handle interrupted when the race was decided
  failRacing,   \* the variant hit an engine failure while its supervisor was racing
  yieldedLive,  \* chunks the source delivered while `cancelled` was false
  lateCancel    \* cancellation was requested after the variant's promise had resolved

vars == << scope, nHandles, tasks, kind, intFut, playHandle, playCalls, playAttempts,
           playThrew, poInterrupted, sup, supCancelReq, variant, cancelled, audioPc,
           feedPc, ttsIn, produced, eos, consumed, ttsFailed, srcPos, qWritten, reads,
           closePc, closeCalls, closeWait, closeLive, intAtPush, supIntCancel,
           failRacing, yieldedLive, lateCancel >>

handleVars == << kind, intFut, playHandle, playCalls, playAttempts, playThrew, poInterrupted >>
supVars    == << sup, supCancelReq, supIntCancel, tasks >>
taskVars   == << variant, cancelled, audioPc, feedPc, srcPos, yieldedLive, failRacing,
                 lateCancel >>
ttsVars    == << ttsIn, produced, eos, consumed, ttsFailed >>
queueVars  == << qWritten, reads >>
closeVars  == << closePc, closeCalls, closeWait, closeLive >>

\* ---------------------------------------------------------------- helpers
Range(s) == { s[i] : i \in 1..Len(s) }

Count(s, x) == Cardinality({ i \in 1..Len(s) : s[i] = x })

Min(a, b) == IF a < b THEN a ELSE b
Max(a, b) == IF a > b THEN a ELSE b

\* Array.prototype.indexOf: 0-based index of the first occurrence, -1 when absent
IndexOf(s, x) ==
  IF x \in Range(s) THEN (CHOOSE i \in 1..Len(s) : s[i] = x /\ \A j \in 1..(i-1) : s[j] # x) - 1
  ELSE -1

\* Array.prototype.splice(start) with a single argument: removes every element from
\* `start` to the end; a negative start counts from the end of the array
Splice(s, start) ==
  LET from == IF start < 0 THEN Max(Len(s) + start, 0) ELSE Min(start, Len(s))
  IN  SubSeq(s, 1, from)

\* text chunks the engine received through pushText
Pushed(h) == SelectSeq(ttsIn[h], LAMBDA e : e.op = "pushText")
NumPushed(h) == Len(Pushed(h))

\* the variant's CancellablePromise has resolved
TaskResolved(h) ==
  \/ variant[h] = "string" /\ audioPc[h] = "done"
  \/ variant[h] = "stream" /\ feedPc[h] = "done"

\* the supervising task is launched and has not completed
Live(h) == sup[h] \in {"awaitSource", "racing"}

\* the queue's writer lock is held
WriterLocked(h) == variant[h] # "none" /\ audioPc[h] # "done"

\* the state after `new AgentOutput(agentPlayout, tts)`: no handle, no task
Constructed ==
  /\ nHandles = 0
  /\ tasks = << >>
  /\ kind = [h \in HandleIds |-> "none"]
  /\ intFut = [h \in HandleIds |-> FALSE]
  /\ playHandle = [h \in HandleIds |-> 0]
  /\ playCalls = [h \in HandleIds |-> 0]
  /\ playAttempts = [h \in HandleIds |-> 0]
  /\ playThrew = [h \in HandleIds |-> FALSE]
  /\ poInterrupted = [h \in HandleIds |-> << >>]
  /\ sup = [h \in HandleIds |-> "absent"]
  /\ supCancelReq = [h \in HandleIds |-> FALSE]
  /\ variant = [h \in HandleIds |-> "none"]
  /\ cancelled = [h \in HandleIds |-> FALSE]
  /\ audioPc = [h \in HandleIds |-> "idle"]
  /\ feedPc = [h \in HandleIds |-> "idle"]
  /\ ttsIn = [h \in HandleIds |-> << >>]
  /\ produced = [h \in HandleIds |-> 0]
  /\ eos = [h \in HandleIds |-> FALSE]
  /\ consumed = [h \in HandleIds |-> 0]
  /\ ttsFailed = [h \in HandleIds |-> FALSE]
  /\ srcPos = [h \in HandleIds |-> 0]
  /\ qWritten = [h \in HandleIds |-> << >>]
  /\ reads = [h \in HandleIds |-> 0]
  /\ closePc = "idle"
  /\ closeCalls = 0
  /\ closeWait = {}
  /\ closeLive = {}
  /\ intAtPush = [h \in HandleIds |-> -1]
  /\ supIntCancel = [h \in HandleIds |-> FALSE]
  /\ failRacing = [h \in HandleIds |-> FALSE]
  /\ yieldedLive = [h \in HandleIds |-> << >>]
  /\ lateCancel = [h \in HandleIds |-> FALSE]

\* one handle, explored in full detail
Init ==
  /\ scope = [tasks |-> 1, frames |-> MaxFrames, chunks |-> MaxChunks, plays |-> MaxPlays]
  /\ Constructed

\* several concurrent handles, each with a short utterance
InitOrch ==
  /\ scope = [tasks |-> MaxTasks, frames |-> 0, chunks |-> 1, plays |-> 1]
  /\ Constructed

\* ---------------------------------------------------------------- SynthesisHandle
\* play() without the `if (this.interrupted) throw` guard
PlayUnchecked(h) ==
  /\ sup[h] # "absent"
  /\ playAttempts[h] < scope.plays
  /\ playAttempts' = [playAttempts EXCEPT ![h] = @ + 1]
  /\ playCalls' = [playCalls EXCEPT ![h] = @ + 1]
  /\ playHandle' = [playHandle EXCEPT ![h] = playCalls[h] + 1]
  /\ UNCHANGED << scope, nHandles, kind, intFut, playThrew, poInterrupted, supVars,
                  taskVars, ttsVars, queueVars, closeVars, intAtPush >>

\* play(): throws when interrupted, else registers queue.readable with the playout
Play(h) ==
  /\ sup[h] # "absent"
  /\ playAttempts[h] < scope.plays
  /\ playAttempts' = [playAttempts EXCEPT ![h] = @ + 1]
  /\ IF intFut[h]
       THEN /\ playThrew' = [playThrew EXCEPT ![h] = TRUE]
            /\ UNCHANGED << playHandle, playCalls >>
       ELSE /\ playCalls' = [playCalls EXCEPT ![h] = @ + 1]
            /\ playHandle' = [playHandle EXCEPT ![h] = playCalls[h] + 1]
            /\ UNCHANGED playThrew
  /\ UNCHANGED << scope, nHandles, kind, intFut, poInterrupted, supVars, taskVars, ttsVars,
                  queueVars, closeVars, intAtPush >>

\* interrupt() without the `if (this.interrupted) return` guard
InterruptUnguarded(h) ==
  /\ sup[h] # "absent"
  /\ poInterrupted' = [poInterrupted EXCEPT
                         ![h] = IF playHandle[h] # 0 THEN Append(@, playHandle[h]) ELSE @]
  /\ intFut' = [intFut EXCEPT ![h] = TRUE]
  /\ intAtPush' = [intAtPush EXCEPT ![h] = IF intFut[h] THEN @ ELSE NumPushed(h)]
  /\ UNCHANGED << scope, nHandles, kind, playHandle, playCalls, playAttempts, playThrew,
                  supVars, taskVars, ttsVars, queueVars, closeVars >>

\* interrupt(): no-op when already interrupted; else forwards to the playout handle
\* and resolves intFut
Interrupt(h) ==
  /\ sup[h] # "absent"
  /\ IF intFut[h]
       THEN UNCHANGED << intFut, poInterrupted, intAtPush >>
       ELSE /\ poInterrupted' = [poInterrupted EXCEPT
                                   ![h] = IF playHandle[h] # 0 THEN Append(@, playHandle[h]) ELSE @]
            /\ intFut' = [intFut EXCEPT ![h] = TRUE]
            /\ intAtPush' = [intAtPush EXCEPT ![h] = NumPushed(h)]
  /\ UNCHANGED << scope, nHandles, kind, playHandle, playCalls, playAttempts, playThrew,
                  supVars, taskVars, ttsVars, queueVars, closeVars >>

\* the playout subsystem pulls the next entry from queue.readable
PlayoutRead(h) ==
  /\ playCalls[h] > 0
  /\ reads[h] < Len(qWritten[h])
  /\ reads' = [reads EXCEPT ![h] = @ + 1]
  /\ UNCHANGED << scope, nHandles, handleVars, supVars, taskVars, ttsVars, qWritten,
                  closeVars, intAtPush >>

\* ---------------------------------------------------------------- AgentOutput
\* synthesize(): new handle, launch #synthesize (runs up to `await handle.ttsSource`),
\* push the task and attach the finally callback
Synthesize(k) ==
  /\ nHandles < scope.tasks
  /\ LET h == nHandles + 1 IN
       /\ nHandles' = h
       /\ kind' = [kind EXCEPT ![h] = k]
       /\ sup' = [sup EXCEPT ![h] = "awaitSource"]
       /\ tasks' = Append(tasks, h)
  /\ UNCHANGED << scope, intFut, playHandle, playCalls, playAttempts, playThrew,
                  poInterrupted, supCancelReq, supIntCancel, taskVars, ttsVars, queueVars,
                  closeVars, intAtPush >>

\* gracefullyCancel(task): cancel() runs the variant's onCancel callback
GracefullyCancel(h) == [cancelled EXCEPT ![h] = TRUE]

\* the callback of task.finally(...) in synthesize()
RemoveTask(h) == Splice(tasks, IndexOf(tasks, h))

\* #synthesize resumes from `await handle.ttsSource`, starts the variant (which runs
\* synchronously up to its first await), registers onCancel and awaits the race
SupStart(h) ==
  /\ sup[h] = "awaitSource"
  /\ sup' = [sup EXCEPT ![h] = "racing"]
  /\ audioPc' = [audioPc EXCEPT ![h] = "reading"]
  /\ IF kind[h] = "stream"
       THEN \* streamSynthesisTask: readGeneratedAudio() started, feed awaits the source
            /\ variant' = [variant EXCEPT ![h] = "stream"]
            /\ feedPc' = [feedPc EXCEPT ![h] = "pulling"]
            /\ UNCHANGED ttsIn
       ELSE \* stringSynthesisTask: pushText, flush, endInput, then awaits the engine
            /\ variant' = [variant EXCEPT ![h] = "string"]
            /\ ttsIn' = [ttsIn EXCEPT ![h] = << PushText(1), Flush, EndInput >>]
            /\ UNCHANGED feedPc
  /\ UNCHANGED << scope, nHandles, handleVars, supCancelReq, supIntCancel, tasks, cancelled,
                  srcPos, yieldedLive, lateCancel, failRacing, produced, eos, consumed, ttsFailed,
                  queueVars, closeVars, intAtPush >>

\* Promise.any([task, handle.intFut.await]) settled: the finally block cancels the
\* variant when the handle is interrupted (not awaited), then resolve(); the
\* finally callback of synthesize() then edits #tasks
SupFinish(h) ==
  /\ sup[h] = "racing"
  /\ TaskResolved(h) \/ intFut[h]
  /\ cancelled' = IF intFut[h] THEN GracefullyCancel(h) ELSE cancelled
  /\ lateCancel' = [lateCancel EXCEPT ![h] = @ \/ (intFut[h] /\ TaskResolved(h) /\ ~cancelled[h])]
  /\ supIntCancel' = [supIntCancel EXCEPT ![h] = intFut[h]]
  /\ sup' = [sup EXCEPT ![h] = "done"]
  /\ tasks' = RemoveTask(h)
  /\ UNCHANGED << scope, nHandles, handleVars, supCancelReq, variant, audioPc, feedPc,
                  srcPos, yieldedLive, failRacing, ttsVars, queueVars, closeVars, intAtPush >>

\* close(): task.cancel() on every entry of #tasks (the supervisor's onCancel callback,
\* once registered, cancels the variant), then awaits Promise.all(#tasks)
CloseCall ==
  /\ closePc # "waiting"
  /\ closeCalls < MaxCloses
  /\ closeCalls' = closeCalls + 1
  /\ supCancelReq' = [h \in HandleIds |-> supCancelReq[h] \/ h \in Range(tasks)]
  /\ cancelled' = [h \in HandleIds |->
                     cancelled[h] \/ (h \in Range(tasks) /\ sup[h] = "racing")]
  /\ lateCancel' = [h \in HandleIds |->
                      lateCancel[h] \/ (h \in Range(tasks) /\ sup[h] = "racing"
                                          /\ TaskResolved(h) /\ ~cancelled[h])]
  /\ closeWait' = Range(tasks)
  /\ closeLive' = { h \in HandleIds : Live(h) }
  /\ closePc' = "waiting"
  /\ UNCHANGED << scope, nHandles, handleVars, sup, supIntCancel, tasks, variant, audioPc,
                  feedPc, srcPos, yieldedLive, failRacing, ttsVars, queueVars, intAtPush >>

\* Promise.all resolved: close() returns
CloseReturn ==
  /\ closePc = "waiting"
  /\ \A h \in closeWait : sup[h] = "done"
  /\ closePc' = "returned"
  /\ UNCHANGED << scope, nHandles, handleVars, supVars, taskVars, ttsVars, queueVars,
                  closeCalls, closeWait, closeLive, intAtPush >>

\* ---------------------------------------------------------------- synthesis tasks
\* the engine's stream has an event the audio loop has not taken yet
EventReady(h) == consumed[h] < produced[h] + (IF eos[h] THEN 1 ELSE 0)

\* the audio loop writing each frame twice (the write is issued again instead of awaited)
AudioLoopWritesTwice(h, brk) ==
  /\ audioPc[h] = "reading"
  /\ IF ttsFailed[h]
       THEN /\ audioPc' = [audioPc EXCEPT ![h] = "crashed"]
            /\ failRacing' = [failRacing EXCEPT ![h] = @ \/ sup[h] = "racing"]
            /\ UNCHANGED << consumed, qWritten >>
       ELSE /\ EventReady(h)
            /\ consumed' = [consumed EXCEPT ![h] = @ + 1]
            /\ IF brk
                 THEN /\ qWritten' = [qWritten EXCEPT ![h] = Append(@, FLUSH_SENTINEL)]
                      /\ audioPc' = [audioPc EXCEPT ![h] = "flushing"]
                 ELSE /\ qWritten' = [qWritten EXCEPT
                                        ![h] = @ \o << consumed[h] + 1, consumed[h] + 1 >>]
                      /\ audioPc' = [audioPc EXCEPT ![h] = "writing"]
            /\ UNCHANGED failRacing
  /\ UNCHANGED << scope, nHandles, handleVars, supVars, variant, cancelled, feedPc, srcPos,
                  yieldedLive, lateCancel, ttsIn, produced, eos, ttsFailed, reads, closeVars,
                  intAtPush >>

\* one iteration of `for await (const audio of ttsStream)`: an engine failure throws
\* out of the async executor (the promise then never settles); when `brk` holds the
\* loop breaks and the FLUSH_SENTINEL write starts; otherwise the frame write starts
AudioLoop(h, brk) ==
  /\ audioPc[h] = "reading"
  /\ IF ttsFailed[h]
       THEN /\ audioPc' = [audioPc EXCEPT ![h] = "crashed"]
            /\ failRacing' = [failRacing EXCEPT ![h] = @ \/ sup[h] = "racing"]
            /\ UNCHANGED << consumed, qWritten >>
       ELSE /\ EventReady(h)
            /\ consumed' = [consumed EXCEPT ![h] = @ + 1]
            /\ IF brk
                 THEN /\ qWritten' = [qWritten EXCEPT ![h] = Append(@, FLUSH_SENTINEL)]
                      /\ audioPc' = [audioPc EXCEPT ![h] = "flushing"]
                 ELSE /\ qWritten' = [qWritten EXCEPT ![h] = Append(@, consumed[h] + 1)]
                      /\ audioPc' = [audioPc EXCEPT ![h] = "writing"]
            /\ UNCHANGED failRacing
  /\ UNCHANGED << scope, nHandles, handleVars, supVars, variant, cancelled, feedPc, srcPos,
                  yieldedLive, lateCancel, ttsIn, produced, eos, ttsFailed, reads, closeVars,
                  intAtPush >>

\* the event the loop takes next is END_OF_STREAM
AtEndOfStream(h) == consumed[h] = produced[h]

\* `await writer.write(x)` returns once the reader has pulled the entry
\* (queue.readable has a high-water mark of 0)
WriteSettled(h) == reads[h] >= Len(qWritten[h])

AudioWriteDone(h) ==
  /\ audioPc[h] = "writing"
  /\ WriteSettled(h)
  /\ audioPc' = [audioPc EXCEPT ![h] = "reading"]
  /\ UNCHANGED << scope, nHandles, handleVars, supVars, variant, cancelled, feedPc, srcPos,
                  yieldedLive, lateCancel, failRacing, ttsVars, queueVars, closeVars, intAtPush >>

\* the FLUSH_SENTINEL write returned: releaseLock() (and resolve() in the string task)
AudioFlushDone(h) ==
  /\ audioPc[h] = "flushing"
  /\ WriteSettled(h)
  /\ audioPc' = [audioPc EXCEPT ![h] = "done"]
  /\ UNCHANGED << scope, nHandles, handleVars, supVars, variant, cancelled, feedPc, srcPos,
                  yieldedLive, lateCancel, failRacing, ttsVars, queueVars, closeVars, intAtPush >>

\* stringSynthesisTask's audio loop
\* `if (cancelled || audio === SynthesizeStream.END_OF_STREAM) break`
StringRead(h) == variant[h] = "string" /\ AudioLoop(h, cancelled[h] \/ AtEndOfStream(h))
StringWriteDone(h) == variant[h] = "string" /\ AudioWriteDone(h)
StringFlushDone(h) == variant[h] = "string" /\ AudioFlushDone(h)

\* streamSynthesisTask's readGeneratedAudio
\* readGeneratedAudio with the flag test inverted: `if (!cancelled) break`
RelayReadInverted(h) ==
  variant[h] = "stream" /\ AudioLoop(h, ~cancelled[h] \/ AtEndOfStream(h))

\* `if (cancelled) break; if (audio === SynthesizeStream.END_OF_STREAM) break`
RelayRead(h) == variant[h] = "stream" /\ AudioLoop(h, cancelled[h] \/ AtEndOfStream(h))
RelayWriteDone(h) == variant[h] = "stream" /\ AudioWriteDone(h)
RelayFlushDone(h) == variant[h] = "stream" /\ AudioFlushDone(h)

\* the feed exit sending flush/endInput only when not cancelled
FeedExitQuietOnCancel(h) ==
  IF ttsFailed[h]
    THEN /\ feedPc' = [feedPc EXCEPT ![h] = "crashed"]
         /\ failRacing' = [failRacing EXCEPT ![h] = @ \/ sup[h] = "racing"]
         /\ UNCHANGED ttsIn
    ELSE /\ feedPc' = [feedPc EXCEPT ![h] = "done"]
         /\ ttsIn' = [ttsIn EXCEPT ![h] = IF cancelled[h] THEN @ ELSE @ \o << Flush, EndInput >>]
         /\ UNCHANGED failRacing

\* the feed loop is left: flush(), endInput(), resolve(); a failed engine stream throws
FeedExit(h) ==
  IF ttsFailed[h]
    THEN /\ feedPc' = [feedPc EXCEPT ![h] = "crashed"]
         /\ failRacing' = [failRacing EXCEPT ![h] = @ \/ sup[h] = "racing"]
         /\ UNCHANGED ttsIn
    ELSE /\ feedPc' = [feedPc EXCEPT ![h] = "done"]
         /\ ttsIn' = [ttsIn EXCEPT ![h] = @ \o << Flush, EndInput >>]
         /\ UNCHANGED failRacing

\* the feed loop with the flag test inverted: `if (!cancelled) break`
FeedNextInverted(h) ==
  /\ variant[h] = "stream"
  /\ feedPc[h] = "pulling"
  /\ srcPos[h] < scope.chunks
  /\ srcPos' = [srcPos EXCEPT ![h] = @ + 1]
  /\ IF cancelled[h]
       THEN /\ UNCHANGED yieldedLive
            /\ IF ttsFailed[h]
                 THEN /\ feedPc' = [feedPc EXCEPT ![h] = "crashed"]
                      /\ failRacing' = [failRacing EXCEPT ![h] = @ \/ sup[h] = "racing"]
                      /\ UNCHANGED ttsIn
                 ELSE /\ ttsIn' = [ttsIn EXCEPT ![h] = Append(@, PushText(srcPos[h] + 1))]
                      /\ UNCHANGED << feedPc, failRacing >>
       ELSE /\ yieldedLive' = [yieldedLive EXCEPT ![h] = Append(@, srcPos[h] + 1)]
            /\ FeedExit(h)
  /\ UNCHANGED << scope, nHandles, handleVars, supVars, variant, cancelled, audioPc,
                  lateCancel, produced, eos, consumed, ttsFailed, queueVars, closeVars,
                  intAtPush >>

\* the source yields its next chunk: break when cancelled, else pushText
FeedNext(h) ==
  /\ variant[h] = "stream"
  /\ feedPc[h] = "pulling"
  /\ srcPos[h] < scope.chunks
  /\ srcPos' = [srcPos EXCEPT ![h] = @ + 1]
  /\ IF cancelled[h]
       THEN FeedExit(h) /\ UNCHANGED yieldedLive
       ELSE /\ yieldedLive' = [yieldedLive EXCEPT ![h] = Append(@, srcPos[h] + 1)]
            /\ IF ttsFailed[h]
                 THEN /\ feedPc' = [feedPc EXCEPT ![h] = "crashed"]
                      /\ failRacing' = [failRacing EXCEPT ![h] = @ \/ sup[h] = "racing"]
                      /\ UNCHANGED ttsIn
                 ELSE /\ ttsIn' = [ttsIn EXCEPT ![h] = Append(@, PushText(srcPos[h] + 1))]
                      /\ UNCHANGED << feedPc, failRacing >>
  /\ UNCHANGED << scope, nHandles, handleVars, supVars, variant, cancelled, audioPc,
                  lateCancel, produced, eos, consumed, ttsFailed, queueVars, closeVars,
                  intAtPush >>

\* the source is exhausted
FeedEnd(h) ==
  /\ variant[h] = "stream"
  /\ feedPc[h] = "pulling"
  /\ FeedExit(h)
  /\ UNCHANGED << scope, nHandles, handleVars, supVars, variant, cancelled, audioPc, srcPos,
                  yieldedLive, lateCancel, produced, eos, consumed, ttsFailed, queueVars, closeVars,
                  intAtPush >>

\* ---------------------------------------------------------------- TTS engine
\* the engine emits an audio frame for text it was given
EngineEmit(h) ==
  /\ NumPushed(h) > 0
  /\ ~eos[h] /\ ~ttsFailed[h]
  /\ produced[h] < scope.frames
  /\ produced' = [produced EXCEPT ![h] = @ + 1]
  /\ UNCHANGED << scope, nHandles, handleVars, supVars, taskVars, ttsIn, eos, consumed,
                  ttsFailed, queueVars, closeVars, intAtPush >>

\* after endInput the engine ends its output with END_OF_STREAM
EngineEnd(h) ==
  /\ EndInput \in Range(ttsIn[h])
  /\ ~eos[h] /\ ~ttsFailed[h]
  /\ eos' = [eos EXCEPT ![h] = TRUE]
  /\ UNCHANGED << scope, nHandles, handleVars, supVars, taskVars, ttsIn, produced, consumed,
                  ttsFailed, queueVars, closeVars, intAtPush >>

\* the engine's stream fails while the task still uses it
EngineFail(h) ==
  /\ variant[h] # "none"
  /\ ~ttsFailed[h]
  /\ audioPc[h] \in {"reading", "writing"} \/ feedPc[h] = "pulling"
  /\ ttsFailed' = [ttsFailed EXCEPT ![h] = TRUE]
  /\ UNCHANGED << scope, nHandles, handleVars, supVars, taskVars, ttsIn, produced, eos,
                  consumed, queueVars, closeVars, intAtPush >>

\* ---------------------------------------------------------------- specifications
Next ==
  \/ \E k \in {"string", "promise", "stream"} : Synthesize(k)
  \/ \E h \in HandleIds : Play(h)
  \/ \E h \in HandleIds : Interrupt(h)
  \/ \E h \in HandleIds : PlayoutRead(h)
  \/ \E h \in HandleIds : SupStart(h)
  \/ \E h \in HandleIds : SupFinish(h)
  \/ CloseCall
  \/ CloseReturn
  \/ \E h \in HandleIds : StringRead(h)
  \/ \E h \in HandleIds : StringWriteDone(h)
  \/ \E h \in HandleIds : StringFlushDone(h)
  \/ \E h \in HandleIds : RelayRead(h)
  \/ \E h \in HandleIds : RelayWriteDone(h)
  \/ \E h \in HandleIds : RelayFlushDone(h)
  \/ \E h \in HandleIds : FeedNext(h)
  \/ \E h \in HandleIds : FeedEnd(h)
  \/ \E h \in HandleIds : EngineEmit(h)
  \/ \E h \in HandleIds : EngineEnd(h)
  \/ \E h \in HandleIds : EngineFail(h)

Spec == Init /\ [][Next]_vars

\* the orchestrator with several concurrent handles: short utterances for which a
\* healthy engine produces no audio frame, so that the handles' interleavings stay
\* enumerable
NextOrch ==
  \/ \E k \in {"string", "stream"} : Synthesize(k)
  \/ \E h \in HandleIds : Play(h)
  \/ \E h \in HandleIds : Interrupt(h)
  \/ \E h \in HandleIds : PlayoutRead(h)
  \/ \E h \in HandleIds : SupStart(h)
  \/ \E h \in HandleIds : SupFinish(h)
  \/ CloseCall
  \/ CloseReturn
  \/ \E h \in HandleIds : StringRead(h)
  \/ \E h \in HandleIds : StringFlushDone(h)
  \/ \E h \in HandleIds : RelayRead(h)
  \/ \E h \in HandleIds : RelayFlushDone(h)
  \/ \E h \in HandleIds : FeedNext(h)
  \/ \E h \in HandleIds : FeedEnd(h)
  \/ \E h \in HandleIds : EngineEnd(h)

SpecOrch == InitOrch /\ [][NextOrch]_vars

\* What the event loop and the collaborators guarantee: a continuation that is ready
\* to resume is resumed; the engine ends its output after endInput; the text source
\* yields or ends; a registered playout keeps pulling. Calls of the API (synthesize,
\* play, interrupt, close) and engine failures are not forced.
Fairness ==
  /\ \A h \in HandleIds :
       /\ WF_vars(SupStart(h))
       /\ WF_vars(SupFinish(h))
       /\ WF_vars(StringRead(h) \/ StringWriteDone(h) \/ StringFlushDone(h))
       /\ WF_vars(RelayRead(h) \/ RelayWriteDone(h) \/ RelayFlushDone(h))
       /\ WF_vars(FeedNext(h) \/ FeedEnd(h))
       /\ WF_vars(EngineEnd(h))
       /\ WF_vars(PlayoutRead(h))
  /\ WF_vars(CloseReturn)

FairSpec == Init /\ [][Next]_vars /\ Fairness

TypeOK ==
  /\ nHandles \in 0..MaxTasks
  /\ Range(tasks) \subseteq HandleIds
  /\ \A h \in HandleIds :
       /\ kind[h] \in {"none", "string", "promise", "stream"}
       /\ sup[h] \in {"absent", "awaitSource", "racing", "done"}
       /\ variant[h] \in {"none", "string", "stream"}
       /\ audioPc[h] \in {"idle", "reading", "writing", "flushing", "done", "crashed"}
       /\ feedPc[h] \in {"idle", "pulling", "done", "crashed"}
       /\ playHandle[h] \in 0..MaxPlays
       /\ consumed[h] <= produced[h] + 1
       /\ reads[h] <= Len(qWritten[h])
  /\ closePc \in {"idle", "waiting", "returned"}

\* ================================================================ claims
FlushCount(h) == Count(qWritten[h], FLUSH_SENTINEL)

LastWritten(h) == qWritten[h][Len(qWritten[h])]

\* position of endInput in what the engine received (0: not received)
EndInputAt(h) ==
  IF EndInput \in Range(ttsIn[h])
    THEN CHOOSE i \in 1..Len(ttsIn[h]) : ttsIn[h][i] = EndInput
    ELSE 0

\* C1: whenever a synthesis task's promise has resolved, exactly one FLUSH_SENTINEL
\* has been written to the handle's queue and it is the last entry written.
C1_FlushOnceAtCompletion ==
  \A h \in HandleIds :
    TaskResolved(h) =>
      /\ FlushCount(h) = 1
      /\ LastWritten(h) = FLUSH_SENTINEL

\* C2: when close() has returned, every supervising task that was live when close()
\* was called has been asked to cancel and has completed; with no live task close()
\* waits for nothing.
C2_CloseCancelsAndJoinsLive ==
  /\ closePc = "returned" =>
       \A h \in closeLive : supCancelReq[h] /\ sup[h] = "done"
  /\ (closePc # "idle" /\ closeLive = {}) => closeWait = {}

\* C3: a handle interrupted before any text reached the engine and never played:
\* with a healthy engine its synthesis task eventually resolves, having written
\* exactly one FLUSH_SENTINEL.
C3_InterruptedEarlyTerminates ==
  \A h \in HandleIds :
    [] ((intAtPush[h] = 0 /\ playCalls[h] = 0)
          => <> ((TaskResolved(h) /\ FlushCount(h) = 1) \/ ttsFailed[h]))

\* C4: a play() call on an interrupted handle throws and changes nothing: the playout
\* is not invoked, playHandle and validated keep their values.
C4_PlayAfterInterruptFails ==
  [][ \A h \in HandleIds :
        (intFut[h] /\ playAttempts'[h] # playAttempts[h]) =>
          /\ playThrew'[h]
          /\ playCalls'[h] = playCalls[h]
          /\ playHandle'[h] = playHandle[h]
          /\ (playHandle'[h] # 0) = (playHandle[h] # 0)
          /\ reads'[h] = reads[h] ]_vars

C4_Witness ==
  \E h \in HandleIds : intFut[h] /\ playThrew[h] /\ playAttempts[h] > 0

\* C5: a supervising task that found its handle interrupted when the race was decided
\* has completed only if the variant it cancelled has finished unwinding: resolved,
\* FLUSH_SENTINEL written, writer released.
C5_SupervisorJoinsCancelledVariant ==
  \A h \in HandleIds :
    (sup[h] = "done" /\ supIntCancel[h]) =>
      /\ TaskResolved(h)
      /\ FlushCount(h) = 1
      /\ ~WriterLocked(h)

\* C6: once the variant hit an engine failure while its supervisor was racing, the
\* supervising task never completes normally.
C6_EngineFailureSurfaces ==
  \A h \in HandleIds : failRacing[h] => sup[h] # "done"

\* C7: #tasks holds exactly the supervising tasks launched and not yet completed,
\* each once.
C7_TasksIsLiveSet ==
  /\ Range(tasks) = { h \in HandleIds : Live(h) }
  /\ Len(tasks) = Cardinality(Range(tasks))

\* C8: a stream handle interrupted after chunk k was pushed: the engine receives no
\* further chunk, only flush and endInput after chunks 1..k, and at most one
\* FLUSH_SENTINEL is written.
C8_NoChunkAfterInterrupt ==
  \A h \in HandleIds :
    (variant[h] = "stream" /\ intAtPush[h] >= 1) =>
      /\ NumPushed(h) = intAtPush[h]
      /\ FlushCount(h) <= 1

C10_RelayEndsAfterEndInput ==
  \A h \in HandleIds :
    (variant[h] = "stream" /\ FlushCount(h) > 0) => EndInputAt(h) > 0

\* C10 amended: ... unless the cancellation flag has been raised.
C10_RelayEndsAfterEndInputUnlessCancelled ==
  \A h \in HandleIds :
    (variant[h] = "stream" /\ FlushCount(h) > 0 /\ ~cancelled[h]) => EndInputAt(h) > 0

C10_Witness ==
  \E h \in HandleIds :
    /\ variant[h] = "stream" /\ FlushCount(h) > 0 /\ ~cancelled[h]
    /\ produced[h] > 0 /\ audioPc[h] = "done"

\* C11: playHandle is assigned at most once per handle, and queue.readable is handed
\* to the playout at most once.
C11_PlayHandleAssignedOnce ==
  \A h \in HandleIds : playCalls[h] <= 1

\* C12: interrupt() is idempotent: the interrupted flag, once set, stays set; the
\* playout handle's interrupt() is forwarded at most once, and only by the call that
\* sets the flag; a call on an interrupted handle changes nothing of the handle; the
\* supervisor cancels the variant on interruption only when the race is decided.
C12_InterruptIdempotent ==
  [][ \A h \in HandleIds :
        /\ intFut[h] => intFut'[h]
        /\ Len(poInterrupted'[h]) <= 1
        /\ poInterrupted'[h] # poInterrupted[h] => (~intFut[h] /\ intFut'[h])
        /\ intFut[h] => intAtPush'[h] = intAtPush[h]
        /\ supIntCancel'[h] # supIntCancel[h] => (sup[h] = "racing" /\ sup'[h] = "done") ]_vars

C12_Witness ==
  \E h \in HandleIds :
    intFut[h] /\ playHandle[h] # 0 /\ poInterrupted[h] = << playHandle[h] >> /\ cancelled[h]

\* C19: once a handle is interrupted, every playout handle a play() call on it
\* returned has received interrupt().
C19_AllPlayoutsInterrupted ==
  \A h \in HandleIds :
    intFut[h] => Range(poInterrupted[h]) = 1..playCalls[h]

\* C13: once cancellation was requested on a variant whose promise had already
\* resolved uncancelled, nothing more is written to the queue, nothing more is sent
\* to the engine, and there is at most one FLUSH_SENTINEL.
C13_LateCancelIsNoOp ==
  [][ \A h \in HandleIds :
        lateCancel[h] =>
          /\ qWritten'[h] = qWritten[h]
          /\ ttsIn'[h] = ttsIn[h]
          /\ FlushCount(h) <= 1 ]_vars

\* number of audio frames written to the queue
FramesWritten(h) == Len(qWritten[h]) - FlushCount(h)

\* C14: stream variant: while the feed loop runs the engine has received neither
\* flush nor endInput; once the loop has exited it has received flush and then
\* endInput, exactly once each, as the last two calls. String variant: the engine
\* has received exactly pushText, flush, endInput from the start, before any audio
\* event is consumed.
C14_FlushEndInputOnce ==
  \A h \in HandleIds :
    /\ variant[h] = "string" => ttsIn[h] = << PushText(1), Flush, EndInput >>
    /\ (variant[h] = "stream" /\ feedPc[h] = "pulling") =>
         (Count(ttsIn[h], Flush) = 0 /\ Count(ttsIn[h], EndInput) = 0)
    /\ (variant[h] = "stream" /\ feedPc[h] = "done") =>
         /\ Count(ttsIn[h], Flush) = 1
         /\ Count(ttsIn[h], EndInput) = 1
         /\ SubSeq(ttsIn[h], Len(ttsIn[h]) - 1, Len(ttsIn[h])) = << Flush, EndInput >>

C14_Witness ==
  \E h \in HandleIds :
    /\ variant[h] = "stream" /\ feedPc[h] = "done"
    /\ cancelled[h] /\ srcPos[h] > Len(yieldedLive[h])
    /\ NumPushed(h) >= 1

\* C15: the queue holds frames 1..k of the engine's output in order, k at most the
\* frames produced, followed by at most one FLUSH_SENTINEL, which is last; when the
\* FLUSH_SENTINEL is written and cancellation was never raised, k is the engine's
\* whole output and the engine has ended its stream.
C15_QueueIsOrderedPrefix ==
  \A h \in HandleIds :
    /\ FlushCount(h) <= 1
    /\ FramesWritten(h) <= produced[h]
    /\ \A i \in 1..FramesWritten(h) : qWritten[h][i] = i
    /\ FlushCount(h) = 1 => LastWritten(h) = FLUSH_SENTINEL
    /\ (FlushCount(h) = 1 /\ ~cancelled[h]) => (eos[h] /\ FramesWritten(h) = produced[h])

C15_Witness ==
  \E h \in HandleIds :
    FlushCount(h) = 1 /\ ~cancelled[h] /\ FramesWritten(h) >= 2 /\ audioPc[h] = "done"

\* C17: once `cancelled` is raised, every write the task starts on the queue is the
\* FLUSH_SENTINEL, and no further text is pushed to the engine.
C17_NoFrameNoPushAfterCancel ==
  [][ \A h \in HandleIds :
        cancelled[h] =>
          /\ qWritten'[h] # qWritten[h] => qWritten'[h] = Append(qWritten[h], FLUSH_SENTINEL)
          /\ SelectSeq(ttsIn'[h], LAMBDA e : e.op = "pushText") = Pushed(h) ]_vars

C17_Witness ==
  \E h \in HandleIds :
    /\ cancelled[h] /\ FlushCount(h) = 1
    /\ FramesWritten(h) >= 1 /\ FramesWritten(h) < produced[h]

\* C16: a handle interrupted while its FLUSH_SENTINEL is not yet written: with a
\* healthy engine the variant's `cancelled` flag is eventually raised.
C16_InterruptRaisesCancel ==
  \A h \in HandleIds :
    [] ((intFut[h] /\ FlushCount(h) = 0) => <> (cancelled[h] \/ ttsFailed[h]))

\* C18: a variant started by a supervising task on which close() has requested
\* cancellation is cancelled, whatever phase the supervisor was in at close().
C18_CloseCancelReachesVariant ==
  \A h \in HandleIds :
    (supCancelReq[h] /\ variant[h] # "none") => cancelled[h]

\* C20: with a healthy engine, a close() that is waiting eventually returns.
C20_CloseReturns ==
  [] (closePc = "waiting" => <> (closePc = "returned" \/ \E h \in HandleIds : ttsFailed[h]))
====
